---- MODULE Spec2Model ----
(***************************************************************************)
(* Kayak launch recommendation engine (recommendation_engine.py, utils.py) *)
(*                                                                         *)
(* Units.  Heights are hundredths of a foot, speeds hundredths of a mph,   *)
(* so 4.0 ft is 400 and 1.73 mph is 173.  A factor is an integer number of *)
(* 1/ONE (ONE = 1.0) and a score an integer number of 1/(100*ONE): every   *)
(* quotient the code forms is exact in these units, so the arithmetic of   *)
(* the model is the exact decimal arithmetic of the formulas; the rounding *)
(* of the binary doubles the code runs on is not modelled.                 *)
(*                                                                         *)
(* A timestamp is [date, hour, minute] with date the day of a 365-day      *)
(* year (1 = 1 January).  A DataFrame is [is_none, columns, rows], None    *)
(* being the value with is_none set.  datetime.now() is read in every      *)
(* iteration; the model lets its date change between calls of the engine   *)
(* only, so that one call sees one date.                                   *)
(***************************************************************************)
EXTENDS Integers, Sequences, FiniteSets, TLC

VARIABLES
    tide_data,        \* argument: DataFrame(time, height) or None
    current_data,     \* argument: DataFrame(time, speed[, direction]) or None
    ferry_data,       \* argument: list of [departure_time, direction] or None
    weather_data,     \* argument: DataFrame(time, wind_speed, wind_direction) or None
    clock,            \* date returned by datetime.now()
    pc,               \* "idle", "loop", "returned", "raised"
    hour,             \* loop variable of `for hour in range(24)`
    recommendations,  \* the list being built
    locals,           \* local variables of the last iteration that emitted
    result,           \* value returned by the last finished call
    raised,           \* exception that ended the last call, "" if none
    calls,            \* number of calls started
    previous,         \* outcome of the call before the current one
    client            \* the call of api_clients.py in progress, or the last one

vars == <<tide_data, current_data, ferry_data, weather_data, clock, pc, hour,
          recommendations, locals, result, raised, calls, previous, client>>

inputs == <<tide_data, current_data, ferry_data, weather_data>>

-----------------------------------------------------------------------------
(* Bounds of the model *)

\* rows of the four arguments of one call, taken together
MaxRows == 5

\* readings swept: -MaxHeight..MaxHeight and so on, in hundredths
MaxHeight == 1300

MaxSpeed == 500

MaxWind == 2500

\* departures of a schedule, in the specification that varies the schedule
MaxDepartures == 3

\* samples of the tide series, in the specification that varies the series
MaxSamples == 3

\* entries of one response of a provider
MaxEntries == 2

-----------------------------------------------------------------------------
(* Program constants *)

HoursPerDay == 24
ONE == 2000
TideMin == 400
TideMax == 800
TideFalloff == 400
BeachGone == 1000
CurrentMin == 0
CurrentMax == 173
CurrentFalloff == 200
WindMin == 0
WindMax == 1000
WindFalloff == 1000
CautionMinutes == 15
SoonMinutes == 30
HalfFactor == 1000
TideWeight == 35
CurrentWeight == 30
WindWeight == 25
FerryWeight == 10
OptimalScore == 160000
AcceptableScore == 120000

-----------------------------------------------------------------------------
(* Values *)

\* None, for an argument that is a DataFrame and for one that is a list
NoneFrame == [is_none |-> TRUE, columns |-> {}, rows |-> <<>>]

NoneList == [is_none |-> TRUE, rows |-> <<>>]

DataFrame(cols, rws) == [is_none |-> FALSE, columns |-> cols, rows |-> rws]

List(rws) == [is_none |-> FALSE, rows |-> rws]

IsNone(x) == x.is_none

Timestamp(d, h, m) == [date |-> d, hour |-> h, minute |-> m]

Min(a, b) == IF a < b THEN a ELSE b

Abs(a) == IF a < 0 THEN -a ELSE a

\* minutes since the start of the year: the value two timestamps are
\* subtracted and ordered by
ToMinutes(t) == (t.date * 24 + t.hour) * 60 + t.minute

MonthStart == <<0, 31, 59, 90, 120, 151, 181, 212, 243, 273, 304, 334>>

\* datetime.day: the day of the month
DayOfMonth(d) ==
    LET m == CHOOSE i \in 1..12 :
                 /\ MonthStart[i] < d
                 /\ \A j \in 1..12 : MonthStart[j] < d => j <= i
    IN d - MonthStart[m]

-----------------------------------------------------------------------------
(* utils.py *)

\* get_tide_status calling a tide that holds its height rising
get_tide_status_never_level(height, has_previous, previous_height) ==
    IF ~has_previous THEN "steady"
    ELSE IF height >= previous_height THEN "rising"
    ELSE "falling"

\* get_tide_status(height, previous_height); has_previous is
\* `previous_height is not None`
get_tide_status(height, has_previous, previous_height) ==
    IF ~has_previous THEN "steady"
    ELSE IF height > previous_height THEN "rising"
    ELSE IF height < previous_height THEN "falling"
    ELSE "steady"

get_optimal_tide_range == <<TideMin, TideMax>>

get_optimal_current_range == <<CurrentMin, CurrentMax>>

get_optimal_wind_range == <<WindMin, WindMax>>

\* the pair (None, None)
NoFerry == [is_none |-> TRUE, minutes |-> 0, direction |-> ""]

Ferry(m, d) == [is_none |-> FALSE, minutes |-> m, direction |-> d]

\* FerryScan with `<=` for `<`: of two departures at the same minute the
\* later one of the list is kept
RECURSIVE FerryScanLastWins(_, _, _, _)
FerryScanLastWins(schedule, time, i, best) ==
    IF i > Len(schedule) THEN best
    ELSE LET ferry == schedule[i]
             diff == ToMinutes(ferry.departure_time) - ToMinutes(time)
         IN IF 0 <= diff /\ (best.is_none \/ diff <= best.minutes)
            THEN FerryScanLastWins(schedule, time, i + 1, Ferry(diff, ferry.direction))
            ELSE FerryScanLastWins(schedule, time, i + 1, best)

\* the loop `for ferry in ferry_schedule`: best is (min_diff, direction),
\* NoFerry while min_diff is still inf
RECURSIVE FerryScan(_, _, _, _)
FerryScan(schedule, time, i, best) ==
    IF i > Len(schedule) THEN best
    ELSE LET ferry == schedule[i]
             diff == ToMinutes(ferry.departure_time) - ToMinutes(time)
         IN IF 0 <= diff /\ (best.is_none \/ diff < best.minutes)
            THEN FerryScan(schedule, time, i + 1, Ferry(diff, ferry.direction))
            ELSE FerryScan(schedule, time, i + 1, best)

\* EarliestFerry taking the first row, whatever its departure time
EarliestFerryFirstListed(rows) == rows[1]

\* min(rows, key = departure_time): the first row of least departure time
EarliestFerry(rows) ==
    LET i == CHOOSE k \in 1..Len(rows) :
                 /\ \A j \in 1..Len(rows) :
                        ToMinutes(rows[k].departure_time) <= ToMinutes(rows[j].departure_time)
                 /\ \A j \in 1..(k - 1) :
                        ToMinutes(rows[j].departure_time) > ToMinutes(rows[k].departure_time)
    IN rows[i]

\* ferry_time_proximity(f"{hours}:{minutes}", ferry_schedule), called on the
\* date today
ferry_time_proximity(hours, minutes, ferry_schedule, today) ==
    IF IsNone(ferry_schedule) \/ Len(ferry_schedule.rows) = 0 THEN NoFerry
    ELSE LET time == Timestamp(today, hours, minutes)
             next == FerryScan(ferry_schedule.rows, time, 1, NoFerry)
             tomorrow_ferries ==
                 SelectSeq(ferry_schedule.rows,
                           LAMBDA f : DayOfMonth(f.departure_time.date) > DayOfMonth(time.date))
         IN IF ~next.is_none THEN next
            ELSE IF Len(tomorrow_ferries) > 0
            THEN LET earliest == EarliestFerry(tomorrow_ferries)
                 IN Ferry(ToMinutes(earliest.departure_time) - ToMinutes(time),
                          earliest.direction)
            ELSE NoFerry

-----------------------------------------------------------------------------
(* recommendation_engine.py: the body of one iteration *)

\* RowsAtHour matching the minute as well: the samples taken on the hour
RowsAtHourOnTheHour(df, h) ==
    SelectSeq(df.rows, LAMBDA r : r.time.hour = h /\ r.time.minute = 0)

\* df[df['time'].dt.hour == h]
RowsAtHour(df, h) == SelectSeq(df.rows, LAMBDA r : r.time.hour = h)

\* tide_data['time'].iloc[0] raises IndexError on a series without rows
HourTimeRaises == Len(tide_data.rows) = 0

hour_time(h) == Timestamp(tide_data.rows[1].time.date, h, 0)

\* min(weather_data['time'], key = |x - hour_time|) raises ValueError on a
\* series without rows
ClosestRaises == Len(weather_data.rows) = 0

\* closest_hour with the last timestamp of least distance
closest_hour_last(h) ==
    LET rows == weather_data.rows
        dist(k) == Abs(ToMinutes(rows[k].time) - ToMinutes(hour_time(h)))
        i == CHOOSE k \in 1..Len(rows) :
                 /\ \A j \in 1..Len(rows) : dist(k) <= dist(j)
                 /\ \A j \in (k + 1)..Len(rows) : dist(j) > dist(k)
    IN rows[i].time

\* the first timestamp of least distance to hour_time
closest_hour(h) ==
    LET rows == weather_data.rows
        dist(k) == Abs(ToMinutes(rows[k].time) - ToMinutes(hour_time(h)))
        i == CHOOSE k \in 1..Len(rows) :
                 /\ \A j \in 1..Len(rows) : dist(k) <= dist(j)
                 /\ \A j \in 1..(k - 1) : dist(j) > dist(k)
    IN rows[i].time

\* weather_hour_data after lines 75-79
weather_hour_data(h) ==
    IF Len(RowsAtHour(weather_data, h)) > 0 THEN RowsAtHour(weather_data, h)
    ELSE SelectSeq(weather_data.rows, LAMBDA r : r.time = closest_hour(h))

\* Falloff without the clamp min(1.0, .)
FalloffUnclamped(distance, span) == ONE - (distance * ONE) \div span

\* 1.0 - min(1.0, distance / span)
Falloff(distance, span) == ONE - Min(ONE, (distance * ONE) \div span)

\* TideFactor with the beach already gone at 10.0 ft
TideFactorGoneAtLimit(tide_height) ==
    LET range == get_optimal_tide_range
        graded == IF range[1] <= tide_height /\ tide_height <= range[2] THEN ONE
                  ELSE IF tide_height < range[1]
                       THEN Falloff(range[1] - tide_height, TideFalloff)
                       ELSE Falloff(tide_height - range[2], TideFalloff)
    IN IF tide_height >= BeachGone THEN 0 ELSE graded


TideFactor(tide_height) ==
    LET range == get_optimal_tide_range
        graded == IF range[1] <= tide_height /\ tide_height <= range[2] THEN ONE
                  ELSE IF tide_height < range[1]
                       THEN Falloff(range[1] - tide_height, TideFalloff)
                       ELSE Falloff(tide_height - range[2], TideFalloff)
    IN IF tide_height > BeachGone THEN 0 ELSE graded

\* CurrentFactor with a current below the range graded like one above it
CurrentFactorSlowGraded(current_speed) ==
    LET range == get_optimal_current_range
    IN IF range[1] <= current_speed /\ current_speed <= range[2] THEN ONE
       ELSE IF current_speed < range[1]
       THEN Falloff(range[1] - current_speed, CurrentFalloff)
       ELSE Falloff(current_speed - range[2], CurrentFalloff)

CurrentFactor(current_speed) ==
    LET range == get_optimal_current_range
    IN IF range[1] <= current_speed /\ current_speed <= range[2] THEN ONE
       ELSE IF current_speed < range[1] THEN ONE
       ELSE Falloff(current_speed - range[2], CurrentFalloff)

\* WindFactor with the falloff of the current, 2.0, in place of its own
WindFactorShortFalloff(wind_speed) ==
    LET range == get_optimal_wind_range
    IN IF range[1] <= wind_speed /\ wind_speed <= range[2] THEN ONE
       ELSE IF wind_speed < range[1] THEN ONE
       ELSE Falloff(wind_speed - range[2], CurrentFalloff)

WindFactor(wind_speed) ==
    LET range == get_optimal_wind_range
    IN IF range[1] <= wind_speed /\ wind_speed <= range[2] THEN ONE
       ELSE IF wind_speed < range[1] THEN ONE
       ELSE Falloff(wind_speed - range[2], WindFalloff)

\* FerryFactor with a near ferry ruling the hour out
FerryFactorBlocked(f) ==
    IF ~f.is_none /\ f.minutes < CautionMinutes THEN 0 ELSE ONE

\* FerryFactor without the caution for a ferry that leaves at the hour start
FerryFactorAfterStart(f) ==
    IF ~f.is_none /\ 0 < f.minutes /\ f.minutes < CautionMinutes THEN HalfFactor ELSE ONE

FerryFactor(f) ==
    IF ~f.is_none /\ f.minutes < CautionMinutes THEN HalfFactor ELSE ONE

\* FerryStatus with the caution still given at 15 minutes
FerryStatusCautionAtLimit(f) ==
    IF ~f.is_none
    THEN IF f.minutes <= CautionMinutes
         THEN "Caution: " \o f.direction \o " ferry in " \o ToString(f.minutes) \o " minutes"
         ELSE IF f.minutes < SoonMinutes
         THEN f.direction \o " ferry in " \o ToString(f.minutes) \o " minutes"
         ELSE "No ferries soon"
    ELSE "No ferry data"

FerryStatus(f) ==
    IF ~f.is_none
    THEN IF f.minutes < CautionMinutes
         THEN "Caution: " \o f.direction \o " ferry in " \o ToString(f.minutes) \o " minutes"
         ELSE IF f.minutes < SoonMinutes
         THEN f.direction \o " ferry in " \o ToString(f.minutes) \o " minutes"
         ELSE "No ferries soon"
    ELSE "No ferry data"

WeightedScore(tide_factor, current_factor, wind_factor, ferry_factor) ==
    tide_factor * TideWeight + current_factor * CurrentWeight
        + wind_factor * WindWeight + ferry_factor * FerryWeight

\* Rating with the tier boundaries given to the lower tier
RatingStrict(weighted_score) ==
    IF weighted_score > OptimalScore THEN "optimal"
    ELSE IF weighted_score > AcceptableScore THEN "acceptable"
    ELSE "not_recommended"


Rating(weighted_score) ==
    IF weighted_score >= OptimalScore THEN "optimal"
    ELSE IF weighted_score >= AcceptableScore THEN "acceptable"
    ELSE "not_recommended"

\* Pad2 without the leading zero
Pad2Plain(n) == ToString(n)

\* f"{n:02d}" for n in 0..23
Pad2(n) == IF n < 10 THEN "0" \o ToString(n) ELSE ToString(n)

\* f"{v:.1f}" of a value given in hundredths.  A value half way between two
\* tenths is rounded by the code according to its binary double; the model
\* rounds it to the even tenth.
FormatTenths(v) ==
    LET a == Abs(v)
        q == a \div 10
        r == a % 10
        t == IF r > 5 THEN q + 1
             ELSE IF r < 5 THEN q
             ELSE IF q % 2 = 0 THEN q ELSE q + 1
    IN (IF v < 0 THEN "-" ELSE "") \o ToString(t \div 10) \o "." \o ToString(t % 10)

\* CurrentDirectionText with 180 degrees already ebbing
CurrentDirectionTextBelow180(h) ==
    IF "direction" \in current_data.columns
    THEN LET current_direction == RowsAtHour(current_data, h)[1].direction
         IN IF 0 <= current_direction /\ current_direction < 180
            THEN "flooding" ELSE "ebbing"
    ELSE "unknown"

CurrentDirectionText(h) ==
    IF "direction" \in current_data.columns
    THEN LET current_direction == RowsAtHour(current_data, h)[1].direction
         IN IF 0 <= current_direction /\ current_direction <= 180
            THEN "flooding" ELSE "ebbing"
    ELSE "unknown"

\* the local variables of the iteration for hour h, on the date today, once
\* the tide, current and weather rows were found
Locals(h, today) ==
    LET tide_height == RowsAtHour(tide_data, h)[1].height
        current_speed == RowsAtHour(current_data, h)[1].speed
        wind_speed == weather_hour_data(h)[1].wind_speed
        ferry == ferry_time_proximity(h, 0, ferry_data, today)
        tf == TideFactor(tide_height)
        cf == CurrentFactor(current_speed)
        wf == WindFactor(wind_speed)
        ff == FerryFactor(ferry)
    IN [hour |-> h,
        today |-> today,
        tide_height |-> tide_height,
        current_speed |-> current_speed,
        wind_speed |-> wind_speed,
        min_to_ferry |-> ferry,
        tide_factor |-> tf,
        current_factor |-> cf,
        wind_factor |-> wf,
        ferry_factor |-> ff,
        weighted_score |-> WeightedScore(tf, cf, wf, ff)]

\* the dictionary appended by lines 157-172
Recommendation(h, today) ==
    LET l == Locals(h, today)
        previous_tide_data == RowsAtHour(tide_data, (h - 1) % 24)
        has_previous == Len(previous_tide_data) > 0
        previous_height == IF has_previous THEN previous_tide_data[1].height ELSE 0
    IN [hour |-> h,
        start_time |-> Pad2(h) \o ":00",
        end_time |-> Pad2((h + 1) % 24) \o ":00",
        tide_height |-> FormatTenths(l.tide_height),
        tide_status |-> get_tide_status(l.tide_height, has_previous, previous_height),
        current_speed |-> FormatTenths(l.current_speed),
        current_direction |-> CurrentDirectionText(h),
        wind_speed |-> FormatTenths(l.wind_speed),
        wind_direction |-> weather_hour_data(h)[1].wind_direction,
        ferry_status |-> FerryStatus(l.min_to_ferry),
        score |-> l.weighted_score,
        rating |-> Rating(l.weighted_score)]

\* how the iteration for hour h ends
Raises(h) ==
    \/ HourTimeRaises
    \/ /\ Len(RowsAtHour(tide_data, h)) > 0
       /\ Len(RowsAtHour(current_data, h)) > 0
       /\ Len(RowsAtHour(weather_data, h)) = 0
       /\ ClosestRaises

Exception(h) == IF HourTimeRaises THEN "IndexError" ELSE "ValueError"

Skips(h) ==
    /\ ~Raises(h)
    /\ \/ Len(RowsAtHour(tide_data, h)) = 0
       \/ Len(RowsAtHour(current_data, h)) = 0
       \/ Len(weather_hour_data(h)) = 0

Emits(h) == ~Raises(h) /\ ~Skips(h)

-----------------------------------------------------------------------------
(* Inputs of the model *)

\* 31 October: the first date of the wall clock, and the date of the series
FirstDate == MonthStart[11]

TideColumns == {"time", "height"}

WeatherColumns == {"time", "wind_speed", "wind_direction"}

TideRows ==
    {[time |-> Timestamp(FirstDate, 0, 0), height |-> 600],
     [time |-> Timestamp(FirstDate, 0, 30), height |-> 1100],
     [time |-> Timestamp(FirstDate, 23, 0), height |-> 800]}

CurrentRows ==
    {[time |-> Timestamp(FirstDate, 0, 0), speed |-> 80, direction |-> 90],
     [time |-> Timestamp(FirstDate, 0, 30), speed |-> 373, direction |-> 270],
     [time |-> Timestamp(FirstDate, 23, 0), speed |-> 80, direction |-> 181]}

WeatherRows ==
    {[time |-> Timestamp(FirstDate, 0, 0), wind_speed |-> 500, wind_direction |-> "N"],
     [time |-> Timestamp(FirstDate, 22, 0), wind_speed |-> 1800, wind_direction |-> "SW"],
     [time |-> Timestamp(FirstDate + 1, 0, 0), wind_speed |-> 1200, wind_direction |-> "E"]}

FerryRows ==
    {[departure_time |-> Timestamp(FirstDate, 0, 10), direction |-> "Seattle to Bainbridge"],
     [departure_time |-> Timestamp(FirstDate, 23, 20), direction |-> "Bainbridge to Seattle"],
     [departure_time |-> Timestamp(FirstDate + 1, 0, 10), direction |-> "Seattle to Bainbridge"]}

\* the DataFrames of n rows drawn from rws; None stands beside the empty one
Frames(cols, rws, n) ==
    {DataFrame(cols, r) : r \in [1..n -> rws]}
        \cup (IF n = 0 THEN {NoneFrame} ELSE {})

Lists(rws, n) ==
    {List(r) : r \in [1..n -> rws]}
        \cup (IF n = 0 THEN {NoneList} ELSE {})

\* Readings of one hour, for the specification that varies the values
HeightGrid == {-100, 0, 300, 400, 600, 800, 900, 1000, 1001, 1200}

SpeedGrid == {-10, 0, 80, 173, 174, 273, 373, 500}

WindGrid == {0, 500, 1000, 1200, 1600, 1800, 2000, 2500}

\* one departure: on the day before (never upcoming), or m minutes past 00:00
FerryGrid ==
    {Timestamp(FirstDate - 1, 23, 50)}
        \cup {Timestamp(FirstDate, 0, m) : m \in {0, 10, 14, 15, 29, 30}}

\* Departures for the specification that varies the schedule: on the day
\* before the series, on their day (two of them at the same minute) and on
\* the day after
FerryChoices ==
    {[departure_time |-> Timestamp(FirstDate - 1, 23, 50), direction |-> "Bainbridge to Seattle"],
     [departure_time |-> Timestamp(FirstDate, 0, 10), direction |-> "Seattle to Bainbridge"],
     [departure_time |-> Timestamp(FirstDate, 0, 10), direction |-> "Bainbridge to Seattle"],
     [departure_time |-> Timestamp(FirstDate, 0, 20), direction |-> "Bainbridge to Seattle"],
     [departure_time |-> Timestamp(FirstDate, 23, 20), direction |-> "Seattle to Bainbridge"],
     [departure_time |-> Timestamp(FirstDate + 1, 0, 10), direction |-> "Seattle to Bainbridge"]}

\* readings in their optimal ranges at 00:00 and at 23:00
TwoHours ==
    /\ tide_data = DataFrame(TideColumns,
                             <<[time |-> Timestamp(FirstDate, 0, 0), height |-> 600],
                               [time |-> Timestamp(FirstDate, 23, 0), height |-> 600]>>)
    /\ current_data = DataFrame({"time", "speed", "direction"},
                                <<[time |-> Timestamp(FirstDate, 0, 0), speed |-> 80,
                                   direction |-> 90],
                                  [time |-> Timestamp(FirstDate, 23, 0), speed |-> 80,
                                   direction |-> 90]>>)
    /\ weather_data = DataFrame(WeatherColumns,
                                <<[time |-> Timestamp(FirstDate, 0, 0), wind_speed |-> 500,
                                   wind_direction |-> "N"],
                                  [time |-> Timestamp(FirstDate, 23, 0), wind_speed |-> 500,
                                   wind_direction |-> "N"]>>)

\* Tide samples for the specification that varies the tide series: hours
\* 22, 23 and 0, hour 23 at two heights
TideChoices ==
    {[time |-> Timestamp(FirstDate, 0, 0), height |-> 700],
     [time |-> Timestamp(FirstDate, 22, 0), height |-> 800],
     [time |-> Timestamp(FirstDate, 23, 0), height |-> 800],
     [time |-> Timestamp(FirstDate, 23, 0), height |-> 600]}

\* degrees of the current, at and around the bounds of `0 <= d <= 180`
DirectionGrid == {-1, 0, 90, 180, 181, 360}

\* a current of 0.8 mph at 00:00, 22:00 and 23:00 in the direction d, with
\* the direction column or without it
CurrentToward(d, with_direction) ==
    DataFrame(IF with_direction THEN {"time", "speed", "direction"} ELSE {"time", "speed"},
              <<[time |-> Timestamp(FirstDate, 0, 0), speed |-> 80, direction |-> d],
                [time |-> Timestamp(FirstDate, 22, 0), speed |-> 80, direction |-> d],
                [time |-> Timestamp(FirstDate, 23, 0), speed |-> 80, direction |-> d]>>)

OneHour(height, speed, wind, departure) ==
    /\ tide_data = DataFrame(TideColumns,
                             <<[time |-> Timestamp(FirstDate, 0, 0), height |-> height]>>)
    /\ current_data = DataFrame({"time", "speed", "direction"},
                                <<[time |-> Timestamp(FirstDate, 0, 0), speed |-> speed,
                                   direction |-> 90]>>)
    /\ weather_data = DataFrame(WeatherColumns,
                                <<[time |-> Timestamp(FirstDate, 0, 0), wind_speed |-> wind,
                                   wind_direction |-> "N"]>>)
    /\ ferry_data = List(<<[departure_time |-> departure, direction |-> "Eastbound"]>>)

-----------------------------------------------------------------------------
(* api_clients.py: the three clients that retry a request *)

max_retries == 3

\* the delay before the second attempt, in seconds
retry_delay == 1

\* `retry_delay *= 2` without the doubling
BackoffConstant(delay) == delay

\* `retry_delay *= 2`
Backoff(delay) == delay * 2

\* datetime.month
Month(d) ==
    CHOOSE i \in 1..12 :
        /\ MonthStart[i] < d
        /\ \A j \in 1..12 : MonthStart[j] < d => j <= i

FromMinutes(m) == Timestamp(m \div 1440, (m \div 60) % 24, m % 60)

Directions ==
    <<"N", "NNE", "NE", "ENE", "E", "ESE", "SE", "SSE",
      "S", "SSW", "SW", "WSW", "W", "WNW", "NW", "NNW">>

\* round(degrees / 22.5) % 16 for whole degrees, where no half occurs
get_wind_direction_text(degrees) == Directions[(((4 * degrees + 45) \div 90) % 16) + 1]

\* generate_simulated_weather_data with a sample every third hour
generate_simulated_weather_data_3_hourly(date, hashes) ==
    LET is_summer == 5 <= Month(date) /\ Month(date) <= 9
        base_wind == IF is_summer THEN 800 ELSE 1200
        wind_variation == IF is_summer THEN 8 ELSE 10
        wind(h) == base_wind
                     + ((14 - Abs(h - 14)) * wind_variation * (50 + hashes.hours[h])) \div 14
        wind_direction(h) == (((hashes.day % 4) * 90) + ((h * 15) % 360)) % 360
    IN  DataFrame(WeatherColumns,
                  [i \in 1..(HoursPerDay \div 3) |->
                      [time |-> Timestamp(date, 3 * (i - 1), 0),
                       wind_speed |-> wind(3 * (i - 1)),
                       wind_direction |-> get_wind_direction_text(wind_direction(3 * (i - 1)))]])

\* The simulated series of a date: one sample per hour of range(24).  hashes
\* holds hash(str(date)) and hash(str(date) + str(hour)) % 100 of the process;
\* the wind speed is rounded down to the hundredth.  Of the five columns the
\* three that the engine reads are kept.
generate_simulated_weather_data(date, hashes) ==
    LET is_summer == 5 <= Month(date) /\ Month(date) <= 9
        base_wind == IF is_summer THEN 800 ELSE 1200
        wind_variation == IF is_summer THEN 8 ELSE 10
        wind(h) == base_wind
                     + ((14 - Abs(h - 14)) * wind_variation * (50 + hashes.hours[h])) \div 14
        wind_direction(h) == (((hashes.day % 4) * 90) + ((h * 15) % 360)) % 360
    IN  DataFrame(WeatherColumns,
                  [i \in 1..HoursPerDay |->
                      [time |-> Timestamp(date, i - 1, 0),
                       wind_speed |-> wind(i - 1),
                       wind_direction |-> get_wind_direction_text(wind_direction(i - 1))]])

\* abs(1.5 * sin(hour / 24 * 2 * pi)) + 0.2 for the hours 0..23, rounded to
\* the hundredth
SyntheticSpeed ==
    <<20, 59, 95, 126, 150, 165, 170, 165, 150, 126, 95, 59,
      20, 59, 95, 126, 150, 165, 170, 165, 150, 126, 95, 59>>

\* `math.sin(hour_frac) > 0`: false at hour 0, true at hour 12, where the
\* sine of the double nearest to pi is positive
SyntheticDirection(h) == IF 1 <= h /\ h <= 12 THEN 90 ELSE 270

\* the series get_current_data makes up for a response without
\* "current_predictions"
SyntheticCurrent(date) ==
    DataFrame({"time", "speed", "direction"},
              [i \in 1..HoursPerDay |->
                  [time |-> Timestamp(date, i - 1, 0),
                   speed |-> SyntheticSpeed[i],
                   direction |-> SyntheticDirection(i - 1)]])

\* What one request meets:
\*   "failed"     requests.get or raise_for_status raises a RequestException
\*   "not_json"   a 2xx response whose body response.json() cannot decode
\*   "no_key"     JSON without the key the client looks for
\*   "malformed"  JSON with the key, an entry of which raises (KeyError, ...)
\*   "ok"         JSON with n well-formed entries, the first at `first`
ResponseKinds == {"failed", "not_json", "no_key", "malformed", "ok"}

\* response.json() raises requests.exceptions.JSONDecodeError, which is a
\* RequestException from requests 2.27 on and only a ValueError before
JsonErrors == {"RequestException", "ValueError"}

NoHashes == [day |-> 0, hours |-> [h \in 0..(HoursPerDay - 1) |-> 0]]

NoClient ==
    [fn |-> "", pc |-> "idle", date |-> 0, demo_key |-> FALSE, json_error |-> "",
     hashes |-> NoHashes, attempt |-> 0, retry_delay |-> 0, requests |-> 0,
     slept |-> <<>>, response |-> "", caught |-> "", result |-> NoneFrame]

\* entry of a client: `max_retries = 3`, `retry_delay = 1`, attempt 0
Entered(c, fn) ==
    [c EXCEPT !.fn = fn, !.pc = "loop", !.attempt = 0, !.retry_delay = retry_delay,
              !.requests = 0, !.slept = <<>>, !.response = "", !.caught = "",
              !.result = NoneFrame]

Returns(c, value) == [c EXCEPT !.pc = "returned", !.result = value]

\* the request of one iteration, made
Requested(c, r) == [c EXCEPT !.requests = @ + 1, !.response = r.kind, !.caught = ""]

RaisesRequestException(c, r) ==
    \/ r.kind = "failed"
    \/ r.kind = "not_json" /\ c.json_error = "RequestException"

RaisesOther(c, r) ==
    \/ r.kind = "malformed"
    \/ r.kind = "not_json" /\ c.json_error = "ValueError"

\* `except requests.RequestException`: sleep and go round again, or give
\* up with the value given
ExceptRequestException(c, r, value) ==
    LET caught == [Requested(c, r) EXCEPT !.caught = "RequestException"]
    IN  IF c.attempt < max_retries - 1
        THEN [caught EXCEPT !.slept = Append(@, c.retry_delay),
                            !.retry_delay = Backoff(@),
                            !.attempt = @ + 1]
        ELSE Returns(caught, value)

\* the outer `except Exception`
ExceptException(c, r, value) ==
    Returns([Requested(c, r) EXCEPT !.caught = "Exception"], value)

\* the n predictions of a response, one per hour from 00:00 of the date
TidePredictions(date, n) ==
    [i \in 1..n |-> [time |-> Timestamp(date, i - 1, 0), height |-> 500 + 100 * i]]

CurrentPredictions(date, n) ==
    [i \in 1..n |-> [time |-> Timestamp(date, i - 1, 0), speed |-> 80, direction |-> 0]]

\* the n entries of a forecast list, three hours apart from `first`
ForecastList(first, n) ==
    [i \in 1..n |-> [time |-> FromMinutes(ToMinutes(first) + 180 * (i - 1)),
                     wind_speed |-> 500 + 100 * i,
                     wind_direction |-> get_wind_direction_text(45 * i)]]

RECURSIVE OnDate(_, _)
\* `if dt.date() == date`
OnDate(entries, date) ==
    IF entries = <<>> THEN <<>>
    ELSE IF entries[1].time.date = date
         THEN <<entries[1]>> \o OnDate(Tail(entries), date)
         ELSE OnDate(Tail(entries), date)

\* one iteration of the retry loop of get_tide_data
get_tide_data(c, r) ==
    IF RaisesRequestException(c, r) THEN ExceptRequestException(c, r, NoneFrame)
    ELSE IF RaisesOther(c, r) THEN ExceptException(c, r, NoneFrame)
    ELSE IF r.kind = "no_key" THEN Returns(Requested(c, r), NoneFrame)
    ELSE Returns(Requested(c, r), DataFrame(TideColumns, TidePredictions(c.date, r.n)))

\* one iteration of the retry loop of get_current_data
get_current_data(c, r) ==
    IF RaisesRequestException(c, r) THEN ExceptRequestException(c, r, NoneFrame)
    ELSE IF RaisesOther(c, r) THEN ExceptException(c, r, NoneFrame)
    ELSE IF r.kind = "no_key" THEN Returns(Requested(c, r), SyntheticCurrent(c.date))
    ELSE Returns(Requested(c, r),
                 DataFrame({"time", "speed", "direction"}, CurrentPredictions(c.date, r.n)))

\* one iteration of the retry loop of get_weather_data
get_weather_data(c, r) ==
    LET simulated == generate_simulated_weather_data(c.date, c.hashes)
        kept == OnDate(ForecastList(r.first, r.n), c.date)
    IN  IF c.demo_key THEN Returns(c, simulated)
        ELSE IF RaisesRequestException(c, r) THEN ExceptRequestException(c, r, simulated)
        ELSE IF RaisesOther(c, r) THEN ExceptException(c, r, simulated)
        ELSE IF r.kind = "no_key" THEN Returns(Requested(c, r), simulated)
        ELSE IF kept = <<>> THEN Returns(Requested(c, r), simulated)
        ELSE Returns(Requested(c, r), DataFrame(WeatherColumns, kept))

-----------------------------------------------------------------------------
(* get_launch_recommendations as a state machine *)

NoLocals ==
    [hour |-> -1, today |-> 0, tide_height |-> 0, current_speed |-> 0, wind_speed |-> 0,
     min_to_ferry |-> NoFerry, tide_factor |-> 0, current_factor |-> 0,
     wind_factor |-> 0, ferry_factor |-> 0, weighted_score |-> 0]

NoCall == [pc |-> "idle", result |-> <<>>, raised |-> ""]

\* line 34 without the test of weather_data
MissingDataNoWeather ==
    \/ IsNone(tide_data)
    \/ IsNone(current_data)
    \/ IsNone(ferry_data) \/ Len(ferry_data.rows) = 0

\* line 34
MissingData ==
    \/ IsNone(tide_data)
    \/ IsNone(current_data)
    \/ IsNone(ferry_data) \/ Len(ferry_data.rows) = 0
    \/ IsNone(weather_data)

\* the caller calls the engine twice with the same arguments
Callable == pc \in {"idle", "returned", "raised"} /\ calls < 2

\* a call whose check of line 34 returns []
CallMissing ==
    /\ Callable
    /\ MissingData
    /\ previous' = [pc |-> pc, result |-> result, raised |-> raised]
    /\ calls' = calls + 1
    /\ pc' = "returned"
    /\ result' = <<>>
    /\ raised' = ""
    /\ recommendations' = <<>>
    /\ locals' = NoLocals
    /\ hour' = 0
    /\ UNCHANGED <<inputs, client, clock>>

\* CallEnter with a helper column written into the caller's tide series
CallEnterAddsHourColumn ==
    /\ Callable
    /\ ~MissingData
    /\ previous' = [pc |-> pc, result |-> result, raised |-> raised]
    /\ calls' = calls + 1
    /\ pc' = "loop"
    /\ result' = <<>>
    /\ raised' = ""
    /\ recommendations' = <<>>
    /\ locals' = NoLocals
    /\ hour' = 0
    /\ tide_data' = [tide_data EXCEPT !.columns = @ \cup {"hour"}]
    /\ UNCHANGED <<current_data, ferry_data, weather_data, client, clock>>

\* a call that passes line 34 and reaches the loop
CallEnter ==
    /\ Callable
    /\ ~MissingData
    /\ previous' = [pc |-> pc, result |-> result, raised |-> raised]
    /\ calls' = calls + 1
    /\ pc' = "loop"
    /\ result' = <<>>
    /\ raised' = ""
    /\ recommendations' = <<>>
    /\ locals' = NoLocals
    /\ hour' = 0
    /\ UNCHANGED <<inputs, client, clock>>

\* an iteration that ends in an exception, which ends the call
HourRaises ==
    /\ pc = "loop"
    /\ hour < HoursPerDay
    /\ Raises(hour)
    /\ pc' = "raised"
    /\ raised' = Exception(hour)
    /\ UNCHANGED <<inputs, client, clock, hour, recommendations, locals, result, calls, previous>>

\* an iteration that ends in `continue`
HourSkipped ==
    /\ pc = "loop"
    /\ hour < HoursPerDay
    /\ Skips(hour)
    /\ hour' = hour + 1
    /\ UNCHANGED <<inputs, client, clock, pc, recommendations, locals, result, raised, calls, previous>>

\* an iteration that appends a recommendation
HourEmitted ==
    /\ pc = "loop"
    /\ hour < HoursPerDay
    /\ Emits(hour)
    /\ locals' = Locals(hour, clock)
    /\ recommendations' = Append(recommendations, Recommendation(hour, clock))
    /\ hour' = hour + 1
    /\ UNCHANGED <<inputs, client, clock, pc, result, raised, calls, previous>>

\* line 174
Return ==
    /\ pc = "loop"
    /\ hour = HoursPerDay
    /\ pc' = "returned"
    /\ result' = recommendations
    /\ UNCHANGED <<inputs, client, clock, hour, recommendations, locals, raised, calls, previous>>

\* midnight passes between two calls
Tick ==
    /\ pc \in {"returned", "raised"}
    /\ clock = FirstDate
    /\ clock' = clock + 1
    /\ UNCHANGED <<inputs, client, pc, hour, recommendations, locals, result, raised, calls, previous>>

Next ==
    \/ CallMissing
    \/ CallEnter
    \/ HourRaises
    \/ HourSkipped
    \/ HourEmitted
    \/ Return
    \/ Tick

\* the engine before its first call
NotCalled ==
    /\ clock = FirstDate
    /\ pc = "idle"
    /\ hour = 0
    /\ recommendations = <<>>
    /\ locals = NoLocals
    /\ result = <<>>
    /\ raised = ""
    /\ calls = 0
    /\ previous = NoCall

Idle ==
    /\ NotCalled
    /\ client = NoClient

\* The arguments vary in shape: None, empty, gapped, repeated hours, in any
\* order, with at most MaxRows rows in all
Init ==
    /\ \E nt \in 0..MaxRows :
       \E nc \in 0..(MaxRows - nt) :
       \E nw \in 0..(MaxRows - nt - nc) :
       \E nf \in 0..(MaxRows - nt - nc - nw) :
           /\ tide_data \in Frames(TideColumns, TideRows, nt)
           /\ current_data \in Frames({"time", "speed", "direction"}, CurrentRows, nc)
                                   \cup Frames({"time", "speed"}, CurrentRows, nc)
           /\ weather_data \in Frames(WeatherColumns, WeatherRows, nw)
           /\ ferry_data \in Lists(FerryRows, nf)
    /\ Idle

Spec == Init /\ [][Next]_vars

\* The values of one hour vary: each reading over its whole range with the
\* others in their optimal range, and all four together over a grid
InitValues ==
    /\ \/ \E h \in (-MaxHeight)..MaxHeight :
              OneHour(h, 80, 500, Timestamp(FirstDate, 0, 40))
       \/ \E s \in (-MaxSpeed)..MaxSpeed :
              OneHour(600, s, 500, Timestamp(FirstDate, 0, 40))
       \/ \E w \in (-MaxWind)..MaxWind :
              OneHour(600, 80, w, Timestamp(FirstDate, 0, 40))
       \/ \E h \in HeightGrid, s \in SpeedGrid, w \in WindGrid, d \in FerryGrid :
              OneHour(h, s, w, d)
    /\ Idle

NextValues ==
    \/ CallEnter
    \/ HourSkipped
    \/ HourEmitted
    \/ Return
    \/ Tick

SpecValues == InitValues /\ [][NextValues]_vars

\* The ferry schedule varies: up to MaxDepartures departures in any order,
\* of the series' day, the day before and the day after
InitFerry ==
    /\ TwoHours
    /\ \E n \in 1..MaxDepartures : ferry_data \in Lists(FerryChoices, n)
    /\ Idle

SpecFerry == InitFerry /\ [][NextValues]_vars

\* The tide series and the direction of the current vary: up to MaxSamples
\* tide samples in any order, the current in every direction of the grid and
\* without a direction
InitSeries ==
    /\ \E n \in 1..MaxSamples : tide_data \in Frames(TideColumns, TideChoices, n)
    /\ \/ \E d \in DirectionGrid : current_data = CurrentToward(d, TRUE)
       \/ current_data = CurrentToward(0, FALSE)
    /\ weather_data = DataFrame(WeatherColumns,
                                <<[time |-> Timestamp(FirstDate, 0, 0), wind_speed |-> 500,
                                   wind_direction |-> "N"]>>)
    /\ ferry_data = List(<<[departure_time |-> Timestamp(FirstDate, 0, 40),
                            direction |-> "Eastbound"]>>)
    /\ Idle

SpecSeries == InitSeries /\ [][NextValues]_vars

-----------------------------------------------------------------------------
(* The daily forecast of app.py: the clients one after the other, then the
   engine on what they returned *)

\* the date selected: 31 October and 4 July
RequestDates == {FirstDate, MonthStart[7] + 4}

\* hash(str(date)) and hash(str(date) + str(hour)) % 100 in three processes
HashChoices ==
    {[day |-> 0, hours |-> [h \in 0..(HoursPerDay - 1) |-> 0]],
     [day |-> 7, hours |-> [h \in 0..(HoursPerDay - 1) |-> 99]],
     [day |-> 2, hours |-> [h \in 0..(HoursPerDay - 1) |-> (37 * h + 11) % 100]]}

\* what a request may meet: the entries of a forecast start at 21:00 of the
\* date or at 00:00 of the day after; tide and current predictions start at
\* 00:00 of the date
Responses(date) ==
    {[kind |-> k, n |-> 0, first |-> Timestamp(date, 21, 0)] : k \in ResponseKinds \ {"ok"}}
        \cup {[kind |-> "ok", n |-> n, first |-> f] :
                  n \in 0..MaxEntries,
                  f \in {Timestamp(date, 21, 0), Timestamp(date + 1, 0, 0)}}

FetchOrder == <<"get_tide_data", "get_current_data", "get_weather_data">>

Position(fn) ==
    IF fn = "" THEN 0 ELSE CHOOSE i \in 1..Len(FetchOrder) : FetchOrder[i] = fn

\* the app calls the next client
Fetch ==
    /\ client.pc \in {"idle", "returned"}
    /\ Position(client.fn) < Len(FetchOrder)
    /\ client' = Entered(client, FetchOrder[Position(client.fn) + 1])
    /\ UNCHANGED <<inputs, clock, pc, hour, recommendations, locals, result, raised,
                   calls, previous>>

\* one iteration of the retry loop of the client in progress; the value of
\* a client that returns is assigned to the app's variable
Attempt ==
    /\ client.pc = "loop"
    /\ \E r \in Responses(client.date) :
           client' = CASE client.fn = "get_tide_data" -> get_tide_data(client, r)
                       [] client.fn = "get_current_data" -> get_current_data(client, r)
                       [] client.fn = "get_weather_data" -> get_weather_data(client, r)
    /\ tide_data' = IF client'.pc = "returned" /\ client.fn = "get_tide_data"
                    THEN client'.result ELSE tide_data
    /\ current_data' = IF client'.pc = "returned" /\ client.fn = "get_current_data"
                       THEN client'.result ELSE current_data
    /\ weather_data' = IF client'.pc = "returned" /\ client.fn = "get_weather_data"
                       THEN client'.result ELSE weather_data
    /\ UNCHANGED <<ferry_data, clock, pc, hour, recommendations, locals, result, raised,
                   calls, previous>>

\* the app has the value of every client
AllFetched == client.fn = FetchOrder[Len(FetchOrder)] /\ client.pc = "returned"

NextClient ==
    \/ Fetch
    \/ Attempt
    \/ AllFetched /\ CallMissing
    \/ AllFetched /\ CallEnter
    \/ HourRaises
    \/ HourSkipped
    \/ HourEmitted
    \/ Return

\* Nothing is fetched yet; the date, the API key, the version of requests
\* and the hash seed of the process vary
InitClient ==
    /\ tide_data = NoneFrame
    /\ current_data = NoneFrame
    /\ weather_data = NoneFrame
    /\ \E d \in RequestDates, key \in BOOLEAN, e \in JsonErrors, hs \in HashChoices :
           /\ ferry_data = List(<<[departure_time |-> Timestamp(d, 0, 40),
                                   direction |-> "Eastbound"]>>)
           /\ client = [NoClient EXCEPT !.date = d, !.demo_key = key,
                                        !.json_error = e, !.hashes = hs]
    /\ NotCalled

SpecClient == InitClient /\ [][NextClient]_vars

\* every request returns or raises in the end
SpecClientFair == SpecClient /\ WF_vars(Attempt)

-----------------------------------------------------------------------------
(* Properties *)

\* every recommendation built or returned so far
Emitted ==
    {recommendations[i] : i \in 1..Len(recommendations)}
        \cup {result[i] : i \in 1..Len(result)}

\* the score s/100 in the units of the model
Score(s) == s * ONE

\* C1: the rating of every emitted recommendation is decided by its score:
\* 'optimal' from 0.80 on, 'acceptable' from 0.60 up to but not including
\* 0.80, 'not_recommended' below 0.60, and there is no other rating.
RatingFollowsScore ==
    \A r \in Emitted :
        /\ r.rating \in {"optimal", "acceptable", "not_recommended"}
        /\ r.score >= Score(80) => r.rating = "optimal"
        /\ (Score(60) <= r.score /\ r.score < Score(80)) => r.rating = "acceptable"
        /\ r.score < Score(60) => r.rating = "not_recommended"

\* a call returned a recommendation that scores exactly 0.80 and is optimal
RatingAtBoundary ==
    /\ pc = "returned"
    /\ \E i \in 1..Len(result) :
           result[i].score = Score(80) /\ result[i].rating = "optimal"

\* C2: every emitted recommendation has its hour in 0..23 and its score in
\* [0, 1], and each of the four factors it was computed from is in [0, 1].
ScoreAndFactorsInRange ==
    /\ \A r \in Emitted :
           /\ r.hour \in 0..23
           /\ 0 <= r.score /\ r.score <= Score(100)
    /\ locals.hour >= 0 =>
           \A f \in {locals.tide_factor, locals.current_factor,
                     locals.wind_factor, locals.ferry_factor} :
               0 <= f /\ f <= ONE

\* an hour was emitted whose tide is more than 4 ft below the range, whose
\* current is more than 2 mph and whose wind is more than 10 mph above it
FarOutOfRange ==
    /\ locals.hour >= 0
    /\ locals.tide_height < 0
    /\ locals.current_speed > 373
    /\ locals.wind_speed > 2000
    /\ locals.tide_factor = 0
    /\ locals.weighted_score = locals.ferry_factor * 10
    /\ Len(recommendations) > 0

\* C3: with any of the four arguments None a call returns the empty list:
\* it builds no recommendation and raises nothing.
MissingInputReturnsEmpty ==
    (calls > 0 /\ (IsNone(tide_data) \/ IsNone(current_data)
                       \/ IsNone(ferry_data) \/ IsNone(weather_data))) =>
        /\ pc = "returned"
        /\ result = <<>>
        /\ recommendations = <<>>
        /\ raised = ""

\* a call returned [] because only the weather series is None
OnlyWeatherMissing ==
    /\ calls > 0
    /\ pc = "returned"
    /\ result = <<>>
    /\ IsNone(weather_data)
    /\ ~IsNone(tide_data) /\ Len(tide_data.rows) > 0
    /\ ~IsNone(current_data) /\ Len(current_data.rows) > 0
    /\ ~IsNone(ferry_data) /\ Len(ferry_data.rows) > 0

\* hours that have a tide row, a current row, both
HasTide(h) == Len(RowsAtHour(tide_data, h)) > 0

HasCurrent(h) == Len(RowsAtHour(current_data, h)) > 0

SampledHours == {h \in 0..23 : HasTide(h) /\ HasCurrent(h)}

HoursOf(recs) == {recs[i].hour : i \in 1..Len(recs)}

\* a call was made with four arguments that line 34 accepts
Accepted == calls > 0 /\ ~MissingData

Ended == pc \in {"returned", "raised"}

\* C4: two calls with the same four arguments return the same list, whatever
\* the date on which each call is made.
SameInputsSameResult ==
    (pc = "returned" /\ previous.pc = "returned") => result = previous.result

\* C5: with four arguments given, an hour without a tide row or without a
\* current row yields no recommendation and no error, and the hours that
\* have both are in the list returned.
GapHourSkippedSilently ==
    Accepted =>
        /\ \A h \in 0..23 \ SampledHours :
               /\ h \notin HoursOf(recommendations)
               /\ ~(pc = "raised" /\ hour = h)
        /\ pc = "returned" => SampledHours \subseteq HoursOf(result)

\* C6: with four arguments given, a call returns one recommendation for
\* each hour that has a tide row and a current row, and nothing else.
OnePerSampledHour ==
    (Accepted /\ Ended) =>
        /\ pc = "returned"
        /\ HoursOf(result) = SampledHours
        /\ Len(result) = Cardinality(SampledHours)

\* C7: with four arguments given, every hour that has a tide row and a
\* current row gets a recommendation also when ferry or weather data are
\* missing for it: with ferry factor 1.0 and 'No ferry data' when the lookup
\* finds nothing, with the readings of another weather row when no weather
\* row has its hour.
DegradesGracefully ==
    Accepted =>
        /\ \A h \in SampledHours :
               /\ ~(pc = "raised" /\ hour = h)
               /\ (pc = "returned" \/ (pc = "loop" /\ hour > h)) =>
                      h \in HoursOf(recommendations)
        /\ locals.hour >= 0 =>
               LET last == recommendations[Len(recommendations)]
               IN /\ last.hour = locals.hour
                  /\ locals.min_to_ferry.is_none =>
                         /\ locals.ferry_factor = ONE
                         /\ last.ferry_status = "No ferry data"
                  /\ \E k \in 1..Len(weather_data.rows) :
                         /\ last.wind_direction = weather_data.rows[k].wind_direction
                         /\ last.wind_speed = FormatTenths(weather_data.rows[k].wind_speed)

\* C8: a call whose weather series is given but has no rows returns the
\* empty list and raises nothing (the tide series has rows here, so that the
\* call gets as far as the weather lookup).
EmptyWeatherReturnsEmpty ==
    (calls > 0 /\ Ended /\ ~IsNone(weather_data) /\ Len(weather_data.rows) = 0
         /\ (IsNone(tide_data) \/ Len(tide_data.rows) > 0)) =>
        /\ pc = "returned"
        /\ result = <<>>

\* C9: with four arguments given and a weather series that has rows, a call
\* raises nothing however sparse the tide and current series are, also with
\* no rows at all, and returns the recommendations of the hours that have
\* both rows.
SparseSeriesTolerated ==
    (Accepted /\ Ended /\ Len(weather_data.rows) > 0) =>
        /\ pc = "returned"
        /\ raised = ""
        /\ HoursOf(result) = SampledHours

\* C10: the tide factor of an emitted hour, for the range [4.0, 8.0]: 1.0 in
\* the range, 1 - min(1, (4.0 - h)/4.0) below it, 1 - min(1, (h - 8.0)/4.0)
\* from 8.0 up to and including 10.0 (0.5 at 10.0), 0.0 above 10.0.
TideFactorPiecewise ==
    locals.hour >= 0 =>
        LET h == locals.tide_height
            f == locals.tide_factor
        IN /\ (400 <= h /\ h <= 800) => f = ONE
           /\ h < 400 => f = ONE - Min(ONE, ((400 - h) * ONE) \div 400)
           /\ (800 < h /\ h <= 1000) => f = ONE - Min(ONE, ((h - 800) * ONE) \div 400)
           /\ h > 1000 => f = 0
           /\ h = 1000 => f = ONE \div 2
           /\ h = 1001 => f = 0

\* an hour was emitted at a tide of exactly 10.0 ft, with factor 0.5
TideAtBeachLimit ==
    /\ locals.hour >= 0
    /\ locals.tide_height = 1000
    /\ locals.tide_factor = ONE \div 2
    /\ Len(recommendations) > 0

\* C11: the current factor of an emitted hour, for the range [0.0, 1.73]: 1.0
\* at every speed up to and including 1.73, negative speeds too;
\* 1 - min(1, (s - 1.73)/2.0) above 1.73, which is 0.0 from 3.73 on.
CurrentFactorPiecewise ==
    locals.hour >= 0 =>
        LET s == locals.current_speed
            f == locals.current_factor
        IN /\ s <= 173 => f = ONE
           /\ s > 173 => f = ONE - Min(ONE, ((s - 173) * ONE) \div 200)
           /\ s >= 373 => f = 0

\* an hour was emitted at a current of exactly 3.73 mph, with factor 0.0
CurrentAtZeroPoint ==
    /\ locals.hour >= 0
    /\ locals.current_speed = 373
    /\ locals.current_factor = 0
    /\ Len(recommendations) > 0

\* C12: the wind factor of an emitted hour, for the range [0.0, 10.0]: 1.0 at
\* every speed up to and including 10.0, negative speeds too;
\* 1 - min(1, (w - 10.0)/10.0) above 10.0, which is 0.0 from 20.0 on.
WindFactorPiecewise ==
    locals.hour >= 0 =>
        LET w == locals.wind_speed
            f == locals.wind_factor
        IN /\ w <= 1000 => f = ONE
           /\ w > 1000 => f = ONE - Min(ONE, ((w - 1000) * ONE) \div 1000)
           /\ w >= 2000 => f = 0

\* an hour was emitted at a wind of 15.0 mph, half way down, with factor 0.5
WindHalfWayDown ==
    /\ locals.hour >= 0
    /\ locals.wind_speed = 1500
    /\ locals.wind_factor = ONE \div 2
    /\ Len(recommendations) > 0

\* minutes from the start of the hour of the last emitted recommendation, on
\* the date of the call, to the k-th departure of the schedule
DeltaOf(k) ==
    ToMinutes(ferry_data.rows[k].departure_time)
        - ToMinutes(Timestamp(locals.today, locals.hour, 0))

\* C13: the ferry factor of an emitted hour is 0.5 if and only if some ferry
\* of the schedule departs at or after the start of the hour and less than
\* 15 minutes after it; it is 1.0 otherwise.
FerryFactorIffDepartureNear ==
    locals.hour >= 0 =>
        locals.ferry_factor =
            IF \E k \in 1..Len(ferry_data.rows) : 0 <= DeltaOf(k) /\ DeltaOf(k) < 15
            THEN ONE \div 2 ELSE ONE

\* the last recommendation appended: that of the hour locals describes
Last == recommendations[Len(recommendations)]

\* the readings of the last emitted hour lie where their factors are 1.0
InOptimalRanges ==
    /\ 400 <= locals.tide_height /\ locals.tide_height <= 800
    /\ locals.current_speed <= 173
    /\ locals.wind_speed <= 1000

\* no ferry departs from the hour start to 15 minutes after it
NoDepartureNear ==
    ~\E k \in 1..Len(ferry_data.rows) : 0 <= DeltaOf(k) /\ DeltaOf(k) < 15

\* C14: the score of an emitted hour is 0.35 tide_factor + 0.30 current_factor
\* + 0.25 wind_factor + 0.10 ferry_factor, the weights summing to 1.0; so an
\* hour with tide in [4.0, 8.0], current <= 1.73, wind <= 10.0 and no ferry
\* departing within 15 minutes has all four factors 1.0, score 1.0 and
\* rating 'optimal'.
ScoreIsWeightedSum ==
    locals.hour >= 0 =>
        /\ Last.score = 35 * locals.tide_factor + 30 * locals.current_factor
                            + 25 * locals.wind_factor + 10 * locals.ferry_factor
        /\ 35 * ONE + 30 * ONE + 25 * ONE + 10 * ONE = Score(100)
        /\ (InOptimalRanges /\ NoDepartureNear) =>
               /\ locals.tide_factor = ONE
               /\ locals.current_factor = ONE
               /\ locals.wind_factor = ONE
               /\ locals.ferry_factor = ONE
               /\ Last.score = Score(100)
               /\ Last.rating = "optimal"

\* C15: an hour with tide above 10.0, current <= 1.73, wind <= 10.0 and no
\* ferry departing within 15 minutes has tide factor 0.0, score
\* 0.30 + 0.25 + 0.10 = 0.65 and rating 'acceptable'.
BeachGoneScoresAcceptable ==
    (/\ locals.hour >= 0
     /\ locals.tide_height > 1000
     /\ locals.current_speed <= 173
     /\ locals.wind_speed <= 1000
     /\ NoDepartureNear) =>
        /\ locals.tide_factor = 0
        /\ Last.score = Score(65)
        /\ Last.rating = "acceptable"

\* the departures at or after the start of the last emitted hour
Upcoming == {k \in 1..Len(ferry_data.rows) : DeltaOf(k) >= 0}

\* the first departure of the schedule among those that leave soonest
NextDeparture ==
    CHOOSE k \in Upcoming :
        /\ \A j \in Upcoming : DeltaOf(k) <= DeltaOf(j)
        /\ \A j \in Upcoming : j < k => DeltaOf(j) > DeltaOf(k)

CautionText(direction, n) ==
    "Caution: " \o direction \o " ferry in " \o ToString(n) \o " minutes"

\* C16: an hour with tide, current and wind in their optimal ranges whose
\* next ferry departs N minutes after the hour start, 0 <= N < 15, in
\* direction D has ferry factor 0.5, score 0.35 + 0.30 + 0.25 + 0.05 = 0.95,
\* rating 'optimal' and ferry_status 'Caution: D ferry in N minutes'.
CautionNearFerry ==
    (/\ locals.hour >= 0
     /\ InOptimalRanges
     /\ Upcoming # {}
     /\ DeltaOf(NextDeparture) < 15) =>
        /\ locals.ferry_factor = ONE \div 2
        /\ Last.score = Score(95)
        /\ Last.rating = "optimal"
        /\ Last.ferry_status = CautionText(ferry_data.rows[NextDeparture].direction,
                                           DeltaOf(NextDeparture))

\* an hour was emitted in the optimal ranges with a ferry leaving at the very
\* start of the hour: score 0.95 and the caution 'in 0 minutes'
CautionAtHourStart ==
    /\ locals.hour >= 0
    /\ InOptimalRanges
    /\ Upcoming # {}
    /\ DeltaOf(NextDeparture) = 0
    /\ Last.score = Score(95)
    /\ Last.ferry_status = "Caution: Eastbound ferry in 0 minutes"

\* C17: the weather of an emitted hour H is that of a sample whose timestamp
\* has hour H if there is one; otherwise that of the sample of least
\* |sample time - H:00| over the whole series, the first of the series among
\* those of least distance.
WeatherAligned ==
    locals.hour >= 0 =>
        LET rows == weather_data.rows
            start == ToMinutes(Timestamp(tide_data.rows[1].time.date, locals.hour, 0))
            dist(k) == Abs(ToMinutes(rows[k].time) - start)
            same == {k \in 1..Len(rows) : rows[k].time.hour = locals.hour}
            nearest == CHOOSE k \in 1..Len(rows) :
                           /\ \A j \in 1..Len(rows) : dist(k) <= dist(j)
                           /\ \A j \in 1..Len(rows) : j < k => dist(j) > dist(k)
            used == IF same # {} THEN same ELSE {nearest}
        IN \E k \in used :
               /\ locals.wind_speed = rows[k].wind_speed
               /\ Last.wind_direction = rows[k].wind_direction

\* hour 23 was emitted without a weather sample of its hour, the samples of
\* 22:00 and of 00:00 the next day being equally near, and took the wind of
\* the one that comes first in the series, that of 00:00
WeatherTieFirstWins ==
    /\ locals.hour = 23
    /\ Len(weather_data.rows) = 2
    /\ weather_data.rows[1].time = Timestamp(FirstDate + 1, 0, 0)
    /\ weather_data.rows[2].time = Timestamp(FirstDate, 22, 0)
    /\ locals.wind_speed = weather_data.rows[1].wind_speed
    /\ Last.wind_direction = "E"

\* C18: when some departure of the schedule is at or after the query time,
\* ferry_time_proximity returns (m, d): m the least non-negative delta over
\* the departures in whatever order they come, d the direction of the first
\* departure of the schedule that has delta m.  Departures before the query
\* time have no influence.
ProximityIsFirstMinimum ==
    (locals.hour >= 0 /\ Upcoming # {}) =>
        locals.min_to_ferry = Ferry(DeltaOf(NextDeparture),
                                    ferry_data.rows[NextDeparture].direction)

\* a lookup met a departure before the query time and then two departures
\* of the same, least delta and different directions, and returned the
\* direction of the first of the two
ProximityTieFirstWins ==
    /\ locals.hour >= 0
    /\ Len(ferry_data.rows) = 3
    /\ DeltaOf(1) < 0
    /\ DeltaOf(2) = DeltaOf(3) /\ DeltaOf(2) >= 0
    /\ ferry_data.rows[2].direction # ferry_data.rows[3].direction
    /\ locals.min_to_ferry = Ferry(DeltaOf(2), ferry_data.rows[2].direction)

\* C19: ferry_status follows the delta of the lookup: below 15 'Caution:
\* {direction} ferry in {N} minutes', from 15 to below 30 '{direction} ferry
\* in {N} minutes', from 30 on 'No ferries soon', 'No ferry data' when the
\* lookup returns None; and the status is a caution exactly when the ferry
\* factor is 0.5.
FerryStatusBuckets ==
    locals.hour >= 0 =>
        LET f == locals.min_to_ferry
        IN /\ f.is_none => Last.ferry_status = "No ferry data"
           /\ (~f.is_none /\ f.minutes < 15) =>
                  Last.ferry_status = CautionText(f.direction, f.minutes)
           /\ (~f.is_none /\ 15 <= f.minutes /\ f.minutes < 30) =>
                  Last.ferry_status =
                      f.direction \o " ferry in " \o ToString(f.minutes) \o " minutes"
           /\ (~f.is_none /\ f.minutes >= 30) => Last.ferry_status = "No ferries soon"
           /\ (~f.is_none /\ Last.ferry_status = CautionText(f.direction, f.minutes))
                  <=> locals.ferry_factor = ONE \div 2

\* an hour was emitted with a ferry exactly 15 minutes away: no caution, and
\* ferry factor 1.0
FerryAtCautionLimit ==
    /\ locals.hour >= 0
    /\ ~locals.min_to_ferry.is_none
    /\ locals.min_to_ferry.minutes = 15
    /\ Last.ferry_status = "Eastbound ferry in 15 minutes"
    /\ locals.ferry_factor = ONE

\* C20: the ferry delta of an emitted hour H is measured from H:00 on the day
\* of the schedule supplied, whatever that day is: with all departures on one
\* date D and some of them at or after H:00 of D, the lookup gives the least
\* non-negative delta to H:00 of D (mm for a departure at H:mm), and the
\* ferry factor and the ferry status follow that delta.
FerryDeltaOnScheduleDay ==
    (/\ locals.hour >= 0
     /\ \A k \in 1..Len(ferry_data.rows) :
            ferry_data.rows[k].departure_time.date = ferry_data.rows[1].departure_time.date) =>
        LET D == ferry_data.rows[1].departure_time.date
            delta(k) == ToMinutes(ferry_data.rows[k].departure_time)
                            - ToMinutes(Timestamp(D, locals.hour, 0))
            later == {k \in 1..Len(ferry_data.rows) : delta(k) >= 0}
        IN \A k \in later :
               (\A j \in later : delta(k) <= delta(j)) =>
                   /\ ~locals.min_to_ferry.is_none
                   /\ locals.min_to_ferry.minutes = delta(k)
                   /\ locals.ferry_factor = IF delta(k) < 15 THEN ONE \div 2 ELSE ONE
                   /\ (delta(k) >= 30) => Last.ferry_status = "No ferries soon"
                   /\ (delta(k) < 15) =>
                          Last.ferry_status = CautionText(locals.min_to_ferry.direction, delta(k))

\* C21: no step of get_launch_recommendations changes any of its four
\* arguments: whether a call returns a full list, a shorter one or the empty
\* list, or ends in an exception, the four series hold the same samples in
\* the same order as before it.
InputsNeverModified == [][inputs' = inputs]_vars

\* a call has returned one recommendation, having skipped the other hour the
\* tide series has a sample for
ReturnedShorterList ==
    /\ calls > 0
    /\ pc = "returned"
    /\ Len(result) = 1
    /\ \E h \in 0..23 : HasTide(h) /\ h # result[1].hour

\* the departures dated on a later day of the month than the query
LaterDay ==
    {k \in 1..Len(ferry_data.rows) :
         DayOfMonth(ferry_data.rows[k].departure_time.date) > DayOfMonth(locals.today)}

BeforeLast ==
    {k \in 1..Len(tide_data.rows) :
         tide_data.rows[k].time.hour = (locals.hour + 23) % 24}

\* C23: the tide status of the recommendation for hour H compares the tide
\* height of H with that of the sample for hour (H - 1) mod 24 of the series
\* (hour 23 for H = 0): 'rising' if greater, 'falling' if less, 'steady' if
\* equal or if the series has no sample for that hour.
TideStatusAgainstPreviousHour ==
    locals.hour >= 0 =>
        IF BeforeLast = {} THEN Last.tide_status = "steady"
        ELSE LET k == CHOOSE i \in BeforeLast : \A j \in BeforeLast : i <= j
                 before == tide_data.rows[k].height
             IN /\ locals.tide_height > before => Last.tide_status = "rising"
                /\ locals.tide_height < before => Last.tide_status = "falling"
                /\ locals.tide_height = before => Last.tide_status = "steady"

\* hour 23 was emitted with the same height as hour 22 and is 'steady', and
\* in the same series hour 0 was compared with hour 23
TideLevelOverTheHour ==
    /\ locals.hour = 23
    /\ BeforeLast # {}
    /\ locals.tide_height = 800
    /\ Last.tide_status = "steady"
    /\ Len(recommendations) = 3
    /\ recommendations[1].hour = 0
    /\ recommendations[1].tide_status = "falling"

HourDecidedByInputsAlone ==
    (pc = "returned" /\ previous.pc = "returned") =>
        \A i \in 1..Len(result) :
            \A j \in 1..Len(previous.result) :
                result[i].hour = previous.result[j].hour => result[i] = previous.result[j]

\* the texts HH:00 of the hours 0..23, in order
HourText ==
    <<"00:00", "01:00", "02:00", "03:00", "04:00", "05:00", "06:00", "07:00",
      "08:00", "09:00", "10:00", "11:00", "12:00", "13:00", "14:00", "15:00",
      "16:00", "17:00", "18:00", "19:00", "20:00", "21:00", "22:00", "23:00">>

\* C26: the list a call returns is strictly increasing in 'hour': at most 24
\* entries, no hour twice, no entry for a skipped hour, and every entry with
\* start_time HH:00 of its hour and end_time HH:00 of (hour + 1) mod 24.
ResultOrderedByHour ==
    (calls > 0 /\ pc = "returned") =>
        /\ Len(result) <= 24
        /\ \A i \in 1..Len(result) : \A j \in 1..Len(result) :
               i < j => result[i].hour < result[j].hour
        /\ \A i \in 1..Len(result) :
               /\ result[i].hour \in 0..23
               /\ HasTide(result[i].hour) /\ HasCurrent(result[i].hour)
               /\ result[i].start_time = HourText[result[i].hour + 1]
               /\ result[i].end_time = HourText[((result[i].hour + 1) % 24) + 1]

\* a call returned the hours 0 and 23 and nothing for the hours between; the
\* entry of hour 23 ends at 00:00
ReturnedMidnightToMidnight ==
    /\ calls > 0
    /\ pc = "returned"
    /\ Len(result) = 2
    /\ result[1].hour = 0 /\ result[1].start_time = "00:00"
    /\ result[2].hour = 23 /\ result[2].end_time = "00:00"

\* the places in a series of the samples whose timestamp has hour h
PlacesAtHour(df, h) == {k \in 1..Len(df.rows) : df.rows[k].time.hour = h}

\* the first of them
FirstPlaceAtHour(df, h) ==
    CHOOSE k \in PlacesAtHour(df, h) : \A j \in PlacesAtHour(df, h) : k <= j

\* C27: a sample belongs to hour H by the hour of its timestamp alone,
\* whatever its date and minutes, and of several samples of hour H the first
\* of the series is the one used, for tide, current and weather alike.
FirstSampleOfHourUsed ==
    locals.hour >= 0 =>
        /\ locals.tide_height =
               tide_data.rows[FirstPlaceAtHour(tide_data, locals.hour)].height
        /\ locals.current_speed =
               current_data.rows[FirstPlaceAtHour(current_data, locals.hour)].speed
        /\ PlacesAtHour(weather_data, locals.hour) # {} =>
               LET first == weather_data.rows[FirstPlaceAtHour(weather_data, locals.hour)]
               IN /\ locals.wind_speed = first.wind_speed
                  /\ Last.wind_direction = first.wind_direction

\* hour 0 was emitted with the wind of the sample of 00:00 of the next day,
\* which comes before the sample of 00:00 of the day itself in the series
WeatherOfAnotherDateUsed ==
    /\ locals.hour = 0
    /\ Len(weather_data.rows) = 2
    /\ weather_data.rows[1].time = Timestamp(FirstDate + 1, 0, 0)
    /\ weather_data.rows[2].time = Timestamp(FirstDate, 0, 0)
    /\ locals.wind_speed = 1200
    /\ Last.wind_direction = "E"

\* how many of the tide, current and wind factors of the last emitted hour
\* are below 1.0
FactorsBelowOne ==
    (IF locals.tide_factor < ONE THEN 1 ELSE 0)
        + (IF locals.current_factor < ONE THEN 1 ELSE 0)
        + (IF locals.wind_factor < ONE THEN 1 ELSE 0)

\* C28: an hour is 'not_recommended' only if at least two of its tide,
\* current and wind factors are below 1.0: with at most one below 1.0 the
\* score is at least 0.60 whatever the ferry factor, and the rating
\* 'acceptable' or 'optimal'.  A tide above 10.0 with a ferry within 15
\* minutes and current and wind in range scores exactly 0.60, 'acceptable'.
\* No score is below 0.05.
NotRecommendedNeedsTwoFactors ==
    locals.hour >= 0 =>
        /\ Last.rating = "not_recommended" => FactorsBelowOne >= 2
        /\ FactorsBelowOne <= 1 =>
               /\ Last.score >= Score(60)
               /\ Last.rating \in {"acceptable", "optimal"}
        /\ (/\ locals.tide_height > 1000
            /\ locals.current_speed <= 173
            /\ locals.wind_speed <= 1000
            /\ Upcoming # {}
            /\ DeltaOf(NextDeparture) < 15) =>
               /\ Last.score = Score(60)
               /\ Last.rating = "acceptable"
        /\ Last.score >= Score(5)

\* an hour was emitted with the tide above 10.0, current and wind in range and
\* a ferry 14 minutes away: score 0.60, 'acceptable'
BeachGoneAndFerryNear ==
    /\ locals.hour >= 0
    /\ locals.tide_height > 1000
    /\ FactorsBelowOne = 1
    /\ Upcoming # {}
    /\ DeltaOf(NextDeparture) = 14
    /\ Last.score = Score(60)
    /\ Last.rating = "acceptable"

\* the two clients that answer None when the provider cannot be reached
RetryClients == {"get_tide_data", "get_current_data"}

\* at most 3 requests, one per iteration; 1 second slept before the second
\* and 2 before the third; None after a third failure
ThreeAttemptsBackedOff ==
    client.fn \in RetryClients =>
        /\ client.requests <= 3
        /\ client.pc = "loop" => client.attempt < 3 /\ client.requests = client.attempt
        /\ client.pc = "returned" => client.requests = client.attempt + 1
        /\ client.slept = SubSeq(<<1, 2>>, 1, client.attempt)
        /\ (client.pc = "returned" /\ client.caught = "RequestException") =>
               client.requests = 3 /\ IsNone(client.result)

\* a call of one of the two clients in progress returns
ClientReturns ==
    (client.fn \in RetryClients /\ client.pc = "loop") ~> (client.pc = "returned")

HourlyOn(df, date) ==
    /\ ~IsNone(df)
    /\ Len(df.rows) = 24
    /\ \A h \in 0..23 : df.rows[h + 1].time = Timestamp(date, h, 0)

\* C30: get_weather_data never returns None.  With the demo API key, after a
\* response without a forecast list or without an entry for the date, after
\* three failed attempts and after any other exception it returns the
\* simulated series, which has exactly one sample for each hour 0..23 of
\* the date; an engine call fed with that series finds the sample of each
\* hour by its hour and never falls back on the nearest sample.
WeatherNeverNone ==
    (client.fn = "get_weather_data" /\ client.pc = "returned") =>
        /\ ~IsNone(client.result)
        /\ weather_data = client.result
        /\ (\/ client.demo_key
            \/ client.response \in {"failed", "not_json", "no_key", "malformed"}) =>
               HourlyOn(client.result, client.date)
        /\ \/ HourlyOn(client.result, client.date)
           \/ /\ client.response = "ok"
              /\ Len(client.result.rows) >= 1
              /\ \A k \in 1..Len(client.result.rows) :
                     client.result.rows[k].time.date = client.date
        /\ (client.response = "failed" /\ ~client.demo_key) =>
               client.requests = 3 /\ client.slept = <<1, 2>>
        /\ HourlyOn(weather_data, client.date) =>
               /\ \A h \in 0..23 : weather_hour_data(h) = <<weather_data.rows[h + 1]>>
               /\ \A i \in 1..Len(recommendations) :
                      LET r == recommendations[i]
                          sample == weather_data.rows[r.hour + 1]
                      IN  /\ r.wind_speed = FormatTenths(sample.wind_speed)
                          /\ r.wind_direction = sample.wind_direction

\* after three failed requests for the forecast the engine has returned the
\* hours 0 and 1, the second with the simulated wind of 01:00
SimulatedAfterThreeFailures ==
    /\ client.fn = "get_weather_data"
    /\ client.response = "failed"
    /\ client.requests = 3
    /\ HourlyOn(weather_data, client.date)
    /\ pc = "returned"
    /\ Len(result) = 2
    /\ result[2].hour = 1
    /\ result[2].wind_speed = FormatTenths(weather_data.rows[2].wind_speed)
    /\ weather_data.rows[2].wind_speed # weather_data.rows[1].wind_speed


====
